---- MODULE Spec2Model ----
(***************************************************************************)
(* pg-search-sequelize: the SQL statement assembler (QueryGenerator), the  *)
(* materialized-view document builder (QueryInterface) and the search      *)
(* orchestrator (SearchModel), modelled as state machines.                 *)
(*                                                                         *)
(* SQL text is modelled as TLA+ strings, built by the same concatenations  *)
(* as the JavaScript.  JavaScript values whose type the code inspects      *)
(* (typeof x === 'string', x instanceof Fn, undefined) are records tagged  *)
(* by a "type" field.  A JavaScript object is a sequence of [k, v] records *)
(* in insertion order, which is the order Object.keys returns.             *)
(***************************************************************************)
EXTENDS Integers, Sequences, FiniteSets, TLC

VARIABLES
  qg,            \* QueryGenerator.query of the generator driven clause by clause
  qgOutOfOrder,  \* TRUE once an operation was called after one that renders later
  sQuery,        \* the query the caller passes to search
  sOptions,      \* the caller's options object, as it is now
  sPassed,       \* the options object as the caller built it
  sLog,          \* one entry per search call: what it was given and what it did
  thisDocument,  \* QueryInterface: this.document
  thisQuery,     \* QueryInterface: this.query, the QueryGenerator's query
  cInput,        \* per createMaterializedView call: its arguments
  cStatus,       \* per call: "idle", "running", "rejected" or "sent"
  pending,       \* the model.describe() lookups in flight: [call, node, shouldAggregate]
  sent,          \* the statements handed to sequelize.query, in order
  polyfilled,    \* String.prototype.allIndicesOf is installed
  pRaw,          \* the raw query string given to parseQuery / searchByText
  pResult,       \* what parseQuery(pRaw) did: undefined until it is called
  pSql,          \* what searchByText(pRaw) did: undefined until it is called
  pgRows,        \* how many rows the search matches, in the server's stable order
  pgLimit,       \* the page size L of the paging caller
  pgLenient,     \* the server reads a number glued to a keyword as two tokens
  pgResult       \* per page: what the caller of search received, undefined before

qgVars == <<qg, qgOutOfOrder>>
sVars == <<sQuery, sOptions, sPassed, sLog>>
viewVars == <<thisDocument, thisQuery, cInput, cStatus, pending, sent>>
pVars == <<polyfilled, pRaw, pResult, pSql>>
pageVars == <<pgRows, pgLimit, pgLenient, pgResult>>

vars == <<qg, qgOutOfOrder, sQuery, sOptions, sPassed, sLog,
          thisDocument, thisQuery, cInput, cStatus, pending, sent,
          polyfilled, pRaw, pResult, pSql, pgRows, pgLimit, pgLenient, pgResult>>

----------------------------------------------------------------------------
(* Bounds *)

\* how many times each accumulating clause operation (select, leftOuterJoin,
\* where, groupBy, orderBy) is applied to one generator
MaxClauseCalls == 1

\* how many times the caller calls search with the same query and options object
MaxSearchCalls == 2

\* how many includes (at any depth) the options of one createMaterializedView
\* call hold
MaxIncludes == 2
MaxConcurrentIncludes == 1

\* how many items (free words and key:value tokens) a raw query string holds
MaxItems == 2

\* the largest page size and the largest number of matching rows of the paging caller
MaxLimit == 3
MaxRows == 4

----------------------------------------------------------------------------
(* JavaScript values *)

Undefined == [type |-> "undefined"]
Str(s) == [type |-> "string", s |-> s]
Num(n) == [type |-> "number", n |-> n]

IsString(x) == x.type = "string"
IsUndefined(x) == x.type = "undefined"

\* the text of a number or string value in a string concatenation ('LIMIT ' + x)
JsToString(x) ==
  CASE x.type = "number" -> ToString(x.n)
    [] x.type = "string" -> x.s
    [] x.type = "undefined" -> "undefined"
    [] x.type = "Fn" -> "[object Object]"
    [] x.type = "NaN" -> "NaN"

\* x >= n and x > n as JavaScript evaluates them: false when x is undefined
JsGe(x, n) == x.type = "number" /\ x.n >= n
JsGt(x, n) == x.type = "number" /\ x.n > n

Obj(entries) == [type |-> "object", entries |-> entries]
Arr(items) == [type |-> "array", items |-> items]

\* Util.isEmptyObject; a model is an object with properties
isEmptyObject(obj) ==
  CASE obj.type = "object" -> Len(obj.entries) < 1
    [] obj.type = "array" -> Len(obj.items) < 1
    [] obj.type = "model" -> FALSE
    [] OTHER -> TRUE

\* if (x): undefined and the empty string are falsy
Truthy(x) ==
  CASE x.type = "undefined" -> FALSE
    [] x.type = "string" -> x.s # ""
    [] x.type = "number" -> x.n # 0
    [] x.type = "NaN" -> FALSE
    [] OTHER -> TRUE

\* Array.prototype.join
RECURSIVE join(_, _)
join(arr, sep) ==
  IF Len(arr) = 0 THEN ""
  ELSE IF Len(arr) = 1 THEN arr[1]
  ELSE arr[1] \o sep \o join(Tail(arr), sep)

\* String.prototype.indexOf, 0-based, -1 when absent
indexOf(s, sub) ==
  LET n == Len(s)
      m == Len(sub)
      hits == {i \in 0..(n - m) : SubSeq(s, i + 1, i + m) = sub}
  IN IF hits = {} THEN -1 ELSE CHOOSE i \in hits : \A j \in hits : i <= j

Contains(s, sub) == indexOf(s, sub) >= 0

\* JavaScript objects as insertion-ordered sequences of [k, v]
ObjHas(o, k) == \E i \in 1..Len(o) : o[i].k = k
ObjGet(o, k) == o[CHOOSE i \in 1..Len(o) : o[i].k = k].v
ObjSet(o, k, v) ==
  IF ObjHas(o, k)
  THEN [i \in 1..Len(o) |-> IF o[i].k = k THEN [k |-> k, v |-> v] ELSE o[i]]
  ELSE Append(o, [k |-> k, v |-> v])
ObjKeys(o) == [i \in 1..Len(o) |-> o[i].k]

----------------------------------------------------------------------------
(* QueryGenerator: static helpers *)

Fn(fn, args) == [type |-> "Fn", fn |-> fn, args |-> args]
IsFn(x) == x.type = "Fn"

build(f) == f.fn \o "(" \o join(f.args, ", ") \o ")"

\* a model (an object with a tableName) or a table name string
table(model) ==
  "\"" \o (IF IsString(model) THEN model.s ELSE model.tableName) \o "\""

col(field, model, as) ==
  (IF IsUndefined(model) THEN "" ELSE table(model) \o ".")
    \o "\"" \o field \o "\""
    \o (IF as = "" THEN "" ELSE " AS \"" \o as \o "\"")

cast(field) == field \o "::" \o "TEXT"

setWeight(field, weight) == Fn("setweight", <<field, "'" \o weight \o "'">>)
toTSVector(field) == Fn("to_tsvector", <<field>>)
coalesce(field) == Fn("coalesce", <<field, "'" \o "" \o "'">>)
stringAggregate(field) == Fn("string_agg", <<field, "'" \o ", " \o "'">>)

\* query.replace(/ /g, ' & ')
RECURSIVE replaceSpaces(_)
replaceSpaces(s) ==
  IF Len(s) = 0 THEN ""
  ELSE (IF SubSeq(s, 1, 1) = " " THEN " & " ELSE SubSeq(s, 1, 1))
         \o replaceSpaces(SubSeq(s, 2, Len(s)))

toTSQuery(query) == Fn("to_tsquery", <<"'" \o replaceSpaces(query) \o ":*'">>)
tsRank(tsVector, tsQuery) == Fn("ts_rank", <<tsVector, build(tsQuery)>>)

----------------------------------------------------------------------------
(* QueryGenerator: the clause accumulator *)

NewQueryGenerator ==
  [ create |-> "", select |-> <<>>, from |-> "", join |-> <<>>, where |-> <<>>,
    groupBy |-> <<>>, orderBy |-> <<>>, limit |-> Num(-1), offset |-> Num(0),
    model |-> Undefined ]

QG_createMaterializedView(q, model) == [q EXCEPT !.create = table(model)]

\* fields: object of key -> [raw, as, model]; raw = "" when not given
selectEntry(key, f) ==
  IF f.raw # "" THEN f.raw \o " AS \"" \o f.as \o "\""
  ELSE col(key, f.model, f.as)

QG_select(q, fields) ==
  [q EXCEPT !.select =
     q.select \o [i \in 1..Len(fields) |-> selectEntry(fields[i].k, fields[i].v)]]

QG_from(q, model) == [q EXCEPT !.model = model, !.from = table(model)]

\* model: a model, or the foreign key column (a string); targetKey, as: "" when absent
QG_leftOuterJoin(q, referenceModel, model, targetKey, as) ==
  LET firstKey == IF IsString(model) THEN model.s
                  ELSE col(referenceModel.primaryKeyField, referenceModel, "")
      secondKey == IF targetKey # "" THEN targetKey
                   ELSE col(model.primaryKeyField, model, "")
      asText == IF as # "" THEN " AS \"" \o as \o "\"" ELSE ""
  IN [q EXCEPT !.join = Append(q.join,
        "LEFT OUTER JOIN " \o table(referenceModel) \o asText
          \o " ON " \o firstKey \o " = " \o secondKey)]

\* attributes: object of key -> [operator, value, model]; value a string value or an
\* Fn; model Undefined when the entry has none.  model.attributes[key] is read
\* without a check: the call throws a TypeError when the model defines no such key.
whereModel(q, a) == IF ~isEmptyObject(a.model) THEN a.model ELSE q.model

whereThrows(q, attributes) ==
  \E i \in 1..Len(attributes) :
    ~ObjHas(whereModel(q, attributes[i].v).attributes, attributes[i].k)

IsTextType_never(type) == FALSE
IsTextType(type) == type \in {"STRING", "CHAR", "TEXT"}

whereEntry(q, key, a) ==
  LET model == whereModel(q, a)
      attr == ObjGet(model.attributes, key)
      isLike == a.operator = "ilike"
      operator == IF isLike THEN "ILIKE" ELSE a.operator
      field0 == col(attr.field, model, "")
      field == IF isLike /\ ~IsTextType(attr.type) THEN cast(field0) ELSE field0
      value0 == IF isLike THEN Str("%" \o JsToString(a.value) \o "%") ELSE a.value
      value == IF IsFn(value0) THEN build(value0) ELSE "'" \o JsToString(value0) \o "'"
  IN field \o " " \o operator \o " " \o value

QG_where(q, attributes) ==
  [q EXCEPT !.where =
     q.where \o [i \in 1..Len(attributes) |->
                   whereEntry(q, attributes[i].k, attributes[i].v)]]

QG_groupBy(q, field, model) ==
  [q EXCEPT !.groupBy =
     Append(q.groupBy, IF IsUndefined(model) THEN field ELSE col(field, model, ""))]

\* fields: sequence of <<expression, direction>>, expression a string value or an Fn
orderByEntry(field) ==
  IF IsFn(field[1]) THEN build(field[1]) \o " " \o field[2]
  ELSE field[1].s \o " " \o field[2]

QG_orderBy(q, fields) ==
  [q EXCEPT !.orderBy = q.orderBy \o [i \in 1..Len(fields) |-> orderByEntry(fields[i])]]

QG_limit(q, max) == [q EXCEPT !.limit = max]
QG_offset(q, val) == [q EXCEPT !.offset = val]

getCreate(q) ==
  IF q.create # "" THEN "CREATE MATERIALIZED VIEW " \o q.create \o " AS" ELSE ""
getSelect(q) ==
  IF Len(q.select) > 0 THEN "SELECT " \o join(q.select, ", ") ELSE ""
getFrom(q) == IF q.from # "" THEN "FROM " \o q.from ELSE ""
getJoin(q) == IF Len(q.join) > 0 THEN join(q.join, " ") ELSE ""
getWhere(q) ==
  IF Len(q.where) > 0 THEN "WHERE " \o join(q.where, " AND ") ELSE ""
getOrderBy(q) ==
  IF Len(q.orderBy) > 0 THEN "ORDER BY " \o join(q.orderBy, ", ") ELSE ""
getLimit(q) == IF JsGe(q.limit, 0) THEN "LIMIT " \o JsToString(q.limit) ELSE ""
getOffset(q) == IF JsGt(q.offset, 0) THEN "OFFSET " \o JsToString(q.offset) ELSE ""
getGroupBy(q) ==
  IF Len(q.groupBy) > 0 THEN "GROUP BY " \o join(q.groupBy, ", ") ELSE ""

\* getQuery with the WHERE and GROUP BY clauses rendered in each other's place
getQuery_whereAfterGroupBy(q) ==
  getCreate(q) \o " " \o getSelect(q) \o " " \o getFrom(q) \o " " \o getJoin(q)
    \o " " \o getGroupBy(q) \o " " \o getWhere(q) \o " " \o getOrderBy(q)
    \o " " \o getLimit(q) \o getOffset(q) \o ";"

getQuery(q) ==
  getCreate(q) \o " " \o getSelect(q) \o " " \o getFrom(q) \o " " \o getJoin(q)
    \o " " \o getWhere(q) \o " " \o getGroupBy(q) \o " " \o getOrderBy(q)
    \o " " \o getLimit(q) \o getOffset(q) \o ";"

----------------------------------------------------------------------------
(* The models of the test suite *)

Attr(field, type) == [field |-> field, type |-> type]

\* one column of the result of model.describe()
Column(type, allowNull) == [type |-> type, allowNull |-> allowNull]

Film ==
  [ type |-> "model", tableName |-> "film", primaryKeyField |-> "film_id",
    description |->
      << [k |-> "film_id", v |-> Column("INTEGER", FALSE)],
         [k |-> "title", v |-> Column("CHARACTER VARYING", FALSE)],
         [k |-> "description", v |-> Column("TEXT", FALSE)],
         [k |-> "release_year", v |-> Column("INTEGER", FALSE)],
         [k |-> "length", v |-> Column("INTEGER", TRUE)],
         [k |-> "rating", v |-> Column("CHARACTER VARYING", TRUE)],
         [k |-> "studio_id", v |-> Column("INTEGER", FALSE)] >>,
    attributes |->
      << [k |-> "id", v |-> Attr("film_id", "INTEGER")],
         [k |-> "title", v |-> Attr("title", "STRING")],
         [k |-> "description", v |-> Attr("description", "TEXT")],
         [k |-> "releaseYear", v |-> Attr("release_year", "INTEGER")],
         [k |-> "length", v |-> Attr("length", "INTEGER")],
         [k |-> "rating", v |-> Attr("rating", "STRING")] >> ]

FilmMaterializedView ==
  [ type |-> "model", tableName |-> "film_materialized_view",
    primaryKeyField |-> "film_id", referenceModel |-> Film,
    searchScope |-> Undefined, defaultScope |-> Obj(<<>>),
    attributes |->
      << [k |-> "id", v |-> Attr("film_id", "INTEGER")],
         [k |-> "title", v |-> Attr("title", "STRING")],
         [k |-> "description", v |-> Attr("description", "TEXT")],
         [k |-> "releaseYear", v |-> Attr("releaseYear", "INTEGER")],
         [k |-> "rating", v |-> Attr("rating", "STRING")],
         [k |-> "document", v |-> Attr("document", "TEXT")] >> ]

----------------------------------------------------------------------------
(* QueryInterface: the inputs of createMaterializedView *)

NoInput == Undefined

Pages == {"first", "second", "double", "shifted"}

\* no paging caller
PageIdle ==
  /\ pgRows = 0
  /\ pgLimit = 0
  /\ pgLenient = TRUE
  /\ pgResult = [page \in Pages |-> Undefined]

\* no SearchModel has been constructed and parseQuery has not been called
ParseIdle ==
  /\ polyfilled = FALSE
  /\ pRaw = Undefined
  /\ pResult = Undefined
  /\ pSql = Undefined

\* no createMaterializedView call has been made
ViewIdle ==
  /\ thisDocument = <<>>
  /\ thisQuery = NewQueryGenerator
  /\ cInput = <<NoInput, NoInput>>
  /\ cStatus = [c \in 1..2 |-> "idle"]
  /\ pending = {}
  /\ sent = <<>>

IncludedModel(name) ==
  [ type |-> "model", tableName |-> name, primaryKeyField |-> name \o "_id",
    description |->
      << [k |-> name \o "_id", v |-> Column("INTEGER", FALSE)],
         [k |-> "name", v |-> Column("CHARACTER VARYING", FALSE)],
         [k |-> "year", v |-> Column("INTEGER", TRUE)] >> ]

IncludedModels ==
  << IncludedModel("actor"), IncludedModel("studio"), IncludedModel("award"),
     IncludedModel("review") >>

\* the include objects a caller writes: association type, weights, optional alias
Template(associationType, attributes, alias) ==
  [associationType |-> associationType, attributes |-> attributes, alias |-> alias]

Weights(name, year) ==
  Obj(<< [k |-> "name", v |-> name], [k |-> "year", v |-> year] >>)

ValidTemplates ==
  { Template(Str("hasMany"), Weights(Str("C"), Str("D")), FALSE),
    Template(Str("belongsTo"), Weights(Str("B"), Str("C")), FALSE),
    Template(Str("hasOne"), Weights(Str("A"), Str("B")), TRUE) }

Templates ==
  ValidTemplates \cup
  { Template(Str("belongsToMany"), Weights(Str("C"), Str("D")), FALSE),
    Template(Undefined, Weights(Str("C"), Str("D")), FALSE),
    Template(Str("belongsTo"), Weights(Str("E"), Str("C")), FALSE),
    Template(Str("hasMany"), Weights(Str("C"), Num(1)), FALSE) }

ValidRootAttributes ==
  { Obj(<< [k |-> "title", v |-> Str("A")], [k |-> "length", v |-> Str("B")] >>) }

RootAttributes ==
  ValidRootAttributes \cup
  { Obj(<< [k |-> "title", v |-> Str("E")] >>),
    Obj(<< [k |-> "title", v |-> Num(1)] >>) }

\* the include trees with n includes: parent[i] is the include (0: the options of
\* the call) whose include list holds include i; includes are numbered in
\* depth-first pre-order, siblings in array order
RECURSIVE AncestorsOrSelf(_, _)
AncestorsOrSelf(parent, i) ==
  IF i = 0 THEN {0} ELSE {i} \cup AncestorsOrSelf(parent, parent[i])

Shapes(n) ==
  { parent \in [1..n -> 0..n] :
      /\ \A i \in 1..n : parent[i] < i
      /\ \A i \in 2..n : parent[i] \in AncestorsOrSelf(parent, i - 1) }

Children_allDescendants(inp, i) ==
  SelectSeq([j \in 1..Len(inp.parent) |-> j],
            LAMBDA j : j # i /\ i \in AncestorsOrSelf(inp.parent, j))

Children(inp, i) ==
  SelectSeq([j \in 1..Len(inp.parent) |-> j], LAMBDA j : inp.parent[j] = i)

\* single: the nodes whose include is written as one object instead of an array;
\* tableName: options.tableName, undefined when the caller gives none
ViewInputs(templates, rootAttributes, maxIncludes) ==
  UNION { { [ type |-> "input", parent |-> parent, tmpl |-> tmpl,
              attributes |-> attributes, single |-> single,
              tableName |-> Undefined ] :
              tmpl \in [1..Len(parent) -> templates],
              attributes \in rootAttributes,
              single \in SUBSET { i \in 0..Len(parent) :
                Cardinality({j \in 1..Len(parent) : parent[j] = i}) = 1 } } :
          parent \in UNION { Shapes(n) : n \in 0..maxIncludes } }

----------------------------------------------------------------------------
(* SearchModel.search *)

\* options.attributes, else the search scope's, else the default scope's, else all
searchAttributes(model, options) ==
  IF ~isEmptyObject(options.attributes) THEN options.attributes.items
  ELSE IF ~isEmptyObject(model.searchScope) THEN model.searchScope.attributes
  ELSE IF ~isEmptyObject(model.defaultScope) THEN model.defaultScope.attributes
  ELSE ObjKeys(model.attributes)

\* referenceModel.attributes[attr].field is read without a check
fieldsThrows(referenceModel, attributes) ==
  \E i \in 1..Len(attributes) :
    attributes[i] # "document" /\ ~ObjHas(referenceModel.attributes, attributes[i])

RECURSIVE searchFields(_, _, _)
searchFields(referenceModel, attributes, fields) ==
  IF Len(attributes) = 0 THEN fields
  ELSE LET attr == Head(attributes)
       IN searchFields(referenceModel, Tail(attributes),
            IF attr # "document"
            THEN ObjSet(fields, ObjGet(referenceModel.attributes, attr).field,
                        [raw |-> "", as |-> attr, model |-> referenceModel])
            ELSE fields)

\* options.where || {}, every entry bound to the reference model, and the document
\* predicate added under the key "document" when there is a query
searchWhere(referenceModel, tsQuery, hasQuery, where) ==
  LET given == IF IsUndefined(where) THEN <<>> ELSE where.entries
      bound == [i \in 1..Len(given) |->
                  [k |-> given[i].k, v |-> [given[i].v EXCEPT !.model = referenceModel]]]
  IN IF hasQuery
     THEN ObjSet(bound, "document",
                 [operator |-> "@@", value |-> tsQuery, model |-> Undefined])
     ELSE bound

\* the first entry of the order list whose field[0] names no attribute of the
\* reference model (0: none); forEach throws there, with the entries before it mapped
orderFirstUndefined(referenceModel, items) ==
  LET bad == {i \in 1..Len(items) :
                ~ObjHas(referenceModel.attributes, JsToString(items[i][1]))}
  IN IF bad = {} THEN 0 ELSE CHOOSE i \in bad : \A j \in bad : i <= j

orderMapped(referenceModel, items, upTo) ==
  [i \in 1..Len(items) |->
     IF i <= upTo
     THEN << Str(col(ObjGet(referenceModel.attributes, JsToString(items[i][1])).field,
                     referenceModel, "")),
             items[i][2] >>
     ELSE items[i]]

\* the rank key is added when there is a query and options.order is absent or empty
shouldRank_onlyWhenAbsent(query, order) == Truthy(query) /\ IsUndefined(order)

shouldRank(query, order) == Truthy(query) /\ isEmptyObject(order)

rankKey(model, tsQuery) == <<tsRank(col("document", model, ""), tsQuery), "DESC">>

searchStatement(model, referenceModel, fields, where, orderBy, options) ==
  getQuery(
    QG_offset(
      QG_limit(
        QG_orderBy(
          QG_where(
            QG_leftOuterJoin(QG_select(QG_from(NewQueryGenerator, model), fields),
                             referenceModel, model, "", ""),
            where),
          orderBy),
        options.limit),
      options.offset))

\* what one call does: whether it throws, the statement it sends, and the options
\* object as the call leaves it
search(model, query, options) ==
  LET referenceModel == model.referenceModel
      hasQuery == Truthy(query)
      tsQuery == IF hasQuery THEN toTSQuery(query.s) ELSE Undefined
      attributes == searchAttributes(model, options)
      fields == searchFields(referenceModel, attributes, <<>>)
      where == searchWhere(referenceModel, tsQuery, hasQuery, options.where)
      whereAfter == IF IsUndefined(options.where) THEN Undefined ELSE Obj(where)
      given == IF IsUndefined(options.order) THEN <<>> ELSE options.order.items
      firstBad == orderFirstUndefined(referenceModel, given)
      mapped == orderMapped(referenceModel, given,
                            IF firstBad = 0 THEN Len(given) ELSE firstBad - 1)
      orderBy == IF shouldRank(query, options.order)
                 THEN <<rankKey(model, tsQuery)>> \o mapped ELSE mapped
      orderAfter(items) == IF IsUndefined(options.order) THEN Undefined ELSE Arr(items)
      from == QG_from(NewQueryGenerator, model)
  IN IF fieldsThrows(referenceModel, attributes)
     THEN [threw |-> TRUE, sql |-> "", options |-> options]
     ELSE IF firstBad # 0
     THEN [threw |-> TRUE, sql |-> "",
           options |-> [options EXCEPT !.where = whereAfter,
                                       !.order = orderAfter(mapped)]]
     ELSE IF whereThrows(from, where)
     THEN [threw |-> TRUE, sql |-> "",
           options |-> [options EXCEPT !.where = whereAfter,
                                       !.order = orderAfter(orderBy)]]
     ELSE [threw |-> FALSE,
           sql |-> searchStatement(model, referenceModel, fields, where, orderBy,
                                   options),
           options |-> [options EXCEPT !.where = whereAfter,
                                       !.order = orderAfter(orderBy)]]

----------------------------------------------------------------------------
(* A caller that calls model.search(query, options) again and again with the
   same query and the same options object *)

Filter(operator, value) == [operator |-> operator, value |-> Str(value), model |-> Undefined]

QueryInputs == {Undefined, Str(""), Str("mind"), Str("tom cruise"), Str("tom  cruise")}

WhereOptions ==
  { Undefined,
    Obj(<< [k |-> "title", v |-> Filter("ilike", "leonardo")] >>),
    Obj(<< [k |-> "releaseYear", v |-> Filter(">=", "2012")] >>),
    Obj(<< [k |-> "budget", v |-> Filter("ilike", "100")] >>),
    Obj(<< [k |-> "releaseYear", v |-> Filter("ilike", "200")] >>),
    Obj(<< [k |-> "rating", v |-> Filter("=", "PG")],
           [k |-> "description", v |-> Filter("ilike", "boy")] >>) }

OrderOptions ==
  { Undefined,
    Arr(<<>>),
    Arr(<< <<Str("releaseYear"), "ASC">> >>),
    Arr(<< <<Str("rating"), "DESC">>, <<Str("budget"), "ASC">> >>) }

AttributesOptions ==
  { Undefined, Arr(<<"title", "releaseYear">>), Arr(<<"title", "budget">>) }

PageOptions ==
  { [limit |-> Undefined, offset |-> Undefined], [limit |-> Num(2), offset |-> Num(1)] }

SearchInit ==
  /\ sQuery \in QueryInputs
  /\ \E where \in WhereOptions, order \in OrderOptions,
        attributes \in AttributesOptions, page \in PageOptions :
       sOptions = [where |-> where, order |-> order, attributes |-> attributes,
                   limit |-> page.limit, offset |-> page.offset]
  /\ sPassed = sOptions
  /\ sLog = <<>>
  /\ ParseIdle
  /\ PageIdle
  /\ qg = NewQueryGenerator
  /\ qgOutOfOrder = FALSE
  /\ ViewIdle

\* what the promise of model.sequelize.query settles to: the rows, or the error of
\* the database
QueryOutcomes == {"rows", "SequelizeDatabaseError"}

\* one call of search: the statement, when one is built, is handed to
\* model.sequelize.query once and the promise it gives is the value returned
Search ==
  /\ Len(sLog) < MaxSearchCalls
  /\ \E outcome \in QueryOutcomes :
       \E r \in {search(FilmMaterializedView, sQuery, sOptions)} :
         /\ sOptions' = r.options
         /\ sLog' = Append(sLog,
                      [given |-> sOptions, threw |-> r.threw, sql |-> r.sql,
                       handed |-> IF r.threw THEN <<>> ELSE <<r.sql>>,
                       settled |-> IF r.threw THEN <<>> ELSE <<outcome>>,
                       returned |-> IF r.threw THEN "TypeError" ELSE outcome])
  /\ UNCHANGED <<sQuery, sPassed, qgVars, viewVars, pVars, pageVars>>

SearchNext == Search

SpecSearch == SearchInit /\ [][SearchNext]_vars

----------------------------------------------------------------------------
(* Claims about search *)

\* C3: search leaves the caller's options object (where, order and the order
\* pairs) as the caller built it, and every call made with the same query and the
\* same options object does what the first did: it sends the same statement.
C3_SearchLeavesOptions ==
  /\ sOptions = sPassed
  /\ \A i \in 1..Len(sLog) :
       sLog[i].threw = sLog[1].threw /\ sLog[i].sql = sLog[1].sql

\* the options name, in a filter, an order entry or the projection, an attribute
\* that the reference model does not define
NamesUndefinedAttribute(options) ==
  \/ /\ ~IsUndefined(options.where)
     /\ \E i \in 1..Len(options.where.entries) :
          ~ObjHas(Film.attributes, options.where.entries[i].k)
  \/ /\ ~IsUndefined(options.order)
     /\ \E i \in 1..Len(options.order.items) :
          ~ObjHas(Film.attributes, JsToString(options.order.items[i][1]))
  \/ /\ ~IsUndefined(options.attributes)
     /\ \E i \in 1..Len(options.attributes.items) :
          ~ObjHas(Film.attributes, options.attributes.items[i])

\* C6: a search whose options name an attribute the schema does not define is not
\* rejected locally: the call builds its statement and hands it to the execution
\* collaborator.
C6_UndefinedAttributeIsSent ==
  (Len(sLog) >= 1 /\ NamesUndefinedAttribute(sPassed)) => ~sLog[1].threw

\* C10: a search with a free-text term and an order that is absent or empty sends
\* a statement whose first ORDER BY key is the rank of the compiled query against
\* the view's document column, descending; a search without a free-text term
\* sends a statement with no rank key.
C10_RankFirstByDefault ==
  \A i \in 1..Len(sLog) :
    ~sLog[i].threw =>
      /\ (Truthy(sQuery) /\ isEmptyObject(sLog[i].given.order))
           => Contains(sLog[i].sql,
                " ORDER BY ts_rank(\"film_materialized_view\".\"document\", "
                  \o build(toTSQuery(sQuery.s)) \o ") DESC")
      /\ ~Truthy(sQuery) => ~Contains(sLog[i].sql, "ts_rank")

\* a search with a free-text term and an empty order list has sent its statement
C10_Witness ==
  \E i \in 1..Len(sLog) :
    /\ ~sLog[i].threw
    /\ Truthy(sQuery)
    /\ sLog[i].given.order = Arr(<<>>)

\* C25: each search call hands exactly one statement to the execution
\* collaborator and what the caller receives is what the collaborator's promise
\* settled to, rows or error, unchanged.
C25_OneStatementReturnedVerbatim ==
  \A i \in 1..Len(sLog) :
    /\ Len(sLog[i].handed) = 1
    /\ sLog[i].settled = << sLog[i].returned >>

\* the predicate the WHERE clause is to hold for one filter of options.where
ExpectedPredicate(key, filter) ==
  LET attr == ObjGet(Film.attributes, key)
      column == "\"film\".\"" \o attr.field \o "\""
  IN IF filter.operator = "ilike"
     THEN (IF attr.type \in {"STRING", "CHAR", "TEXT"} THEN column
           ELSE column \o "::TEXT")
          \o " ILIKE '%" \o filter.value.s \o "%'"
     ELSE column \o " " \o filter.operator \o " '" \o filter.value.s \o "'"

\* the predicates of a search: one per filter the caller passed, in the caller's
\* order, then the document predicate when there is a free-text term
ExpectedPredicates(where, query) ==
  LET given == IF IsUndefined(where) THEN <<>> ELSE where.entries
  IN [i \in 1..Len(given) |-> ExpectedPredicate(given[i].k, given[i].v)]
     \o (IF Truthy(query)
         THEN << "\"film_materialized_view\".\"document\" @@ "
                   \o build(toTSQuery(query.s)) >>
         ELSE <<>>)

\* C26: in every statement sent, a fuzzy (ilike) filter renders as column ILIKE
\* '%value%' with the column cast to TEXT exactly when the attribute's type is not
\* STRING, CHAR or TEXT; every other operator renders as column, the operator
\* unchanged and the value quoted; the predicates are joined with AND; the
\* caller's filters are qualified by the reference model's table and the document
\* predicate by the view's table.
C26_WhereRendering ==
  \A i \in 1..Len(sLog) :
    ~sLog[i].threw =>
      \A expected \in {ExpectedPredicates(sPassed.where, sQuery)} :
        IF Len(expected) = 0
        THEN ~Contains(sLog[i].sql, "WHERE")
        ELSE Contains(sLog[i].sql, " WHERE " \o join(expected, " AND ") \o "  ")

\* a statement was sent for a fuzzy filter on an attribute that is not text,
\* together with a free-text term
C26_Witness ==
  \E i \in 1..Len(sLog) :
    /\ ~sLog[i].threw
    /\ Truthy(sQuery)
    /\ sPassed.where = Obj(<< [k |-> "releaseYear", v |-> Filter("ilike", "200")] >>)

----------------------------------------------------------------------------
(* A QueryGenerator driven one clause operation at a time, in any order *)

\* the clauses in the order getQuery renders them
ClauseText(q) ==
  << getCreate(q), getSelect(q), getFrom(q), getJoin(q), getWhere(q),
     getGroupBy(q), getOrderBy(q), getLimit(q), getOffset(q) >>

\* an operation on clause p is called while a clause rendered after p is already set
CalledAfterLater(q, p) == \E j \in (p + 1)..9 : ClauseText(q)[j] # ""

QGStep(p, q2) ==
  /\ qg' = q2
  /\ qgOutOfOrder' = (qgOutOfOrder \/ CalledAfterLater(qg, p))
  /\ UNCHANGED <<sVars, viewVars, pVars, pageVars>>

SelectInputs ==
  { << [k |-> "title", v |-> [raw |-> "", as |-> "title", model |-> Film]] >>,
    << [k |-> "document", v |-> [raw |-> "to_tsvector(\"film\".\"title\")",
                                 as |-> "document", model |-> Undefined]] >> }

WhereInputs ==
  { << [k |-> "releaseYear", v |-> [operator |-> "ilike", value |-> Str("200"),
                                    model |-> Film]] >>,
    << [k |-> "rating", v |-> [operator |-> ">=", value |-> Str("7"),
                               model |-> Undefined]] >> }

OrderByInputs ==
  { << <<Str(col("rating", Film, "")), "ASC">> >>,
    << <<tsRank(col("document", FilmMaterializedView, ""), toTSQuery("mind")), "DESC">> >> }

LimitInputs == {Undefined, Num(0), Num(2)}
OffsetInputs == {Undefined, Num(1)}

QGCreate == QGStep(1, QG_createMaterializedView(qg, Str("film_materialized_view")))

QGSelect ==
  /\ Len(qg.select) < MaxClauseCalls
  /\ \E fields \in SelectInputs : QGStep(2, QG_select(qg, fields))

QGFrom == QGStep(3, QG_from(qg, FilmMaterializedView))

QGJoin ==
  /\ Len(qg.join) < MaxClauseCalls
  /\ ~IsUndefined(qg.model)
  /\ QGStep(4, QG_leftOuterJoin(qg, Film, qg.model, "", ""))

QGWhere ==
  /\ Len(qg.where) < MaxClauseCalls
  /\ ~IsUndefined(qg.model)
  /\ \E attributes \in WhereInputs :
       /\ ~whereThrows(qg, attributes)
       /\ QGStep(5, QG_where(qg, attributes))

QGGroupBy ==
  /\ Len(qg.groupBy) < MaxClauseCalls
  /\ QGStep(6, QG_groupBy(qg, "film_id", Film))

QGOrderBy ==
  /\ Len(qg.orderBy) < MaxClauseCalls
  /\ \E fields \in OrderByInputs : QGStep(7, QG_orderBy(qg, fields))

QGLimit == \E max \in LimitInputs : QGStep(8, QG_limit(qg, max))

QGOffset == \E val \in OffsetInputs : QGStep(9, QG_offset(qg, val))

QGInit ==
  /\ qg = NewQueryGenerator
  /\ qgOutOfOrder = FALSE
  /\ sQuery = Undefined
  /\ sOptions = Undefined
  /\ sPassed = Undefined
  /\ sLog = <<>>
  /\ ParseIdle
  /\ PageIdle
  /\ ViewIdle

QGNext ==
  \/ QGCreate
  \/ QGSelect
  \/ QGFrom
  \/ QGJoin
  \/ QGWhere
  \/ QGGroupBy
  \/ QGOrderBy
  \/ QGLimit
  \/ QGOffset

SpecQG == QGInit /\ [][QGNext]_vars

----------------------------------------------------------------------------
(* Claims about the rendered statement *)

\* text is the clauses cs, in this order, each preceded by any number of spaces,
\* and then the terminating semicolon
RECURSIVE RendersInOrder(_, _)
RendersInOrder(text, cs) ==
  IF Len(text) > 0 /\ SubSeq(text, 1, 1) = " "
  THEN RendersInOrder(SubSeq(text, 2, Len(text)), cs)
  ELSE IF Len(cs) = 0 THEN text = ";"
  ELSE /\ Len(text) >= Len(cs[1])
       /\ SubSeq(text, 1, Len(cs[1])) = cs[1]
       /\ RendersInOrder(SubSeq(text, Len(cs[1]) + 1, Len(text)), Tail(cs))

NonEmpty(c) == c # ""

\* C8: whatever the order in which the clause operations were called, the text of
\* getQuery is made of the clauses that are set, in the order CREATE, SELECT,
\* FROM, JOIN, WHERE, GROUP BY, ORDER BY, LIMIT, OFFSET.
C8_FixedClauseOrder ==
  RendersInOrder(getQuery(qg), SelectSeq(ClauseText(qg), NonEmpty))

\* all nine clauses are set, by operations called out of rendering order
C8_Witness == qgOutOfOrder /\ \A i \in 1..9 : ClauseText(qg)[i] # ""

\* C9: the text of getQuery is its non-empty clauses joined by single spaces (an
\* empty clause contributes nothing), followed by the terminating semicolon.
C9_SingleSpaces ==
  getQuery(qg) = join(SelectSeq(ClauseText(qg), NonEmpty), " ") \o ";"

----------------------------------------------------------------------------
(* QueryInterface: createMaterializedView and buildDocument *)

ViewNames == <<"film_materialized_view", "film_search_view">>

\* the include object of include i of a call
includeOf(inp, i) ==
  LET model == IncludedModels[((i - 1) % Len(IncludedModels)) + 1]
      t == inp.tmpl[i]
  IN [ model |-> model, foreignKey |-> model.tableName \o "_id", targetKey |-> "id",
       associationType |-> t.associationType, attributes |-> t.attributes,
       as |-> IF t.alias THEN "x_" \o model.tableName ELSE "" ]

nodeModel(inp, i) == IF i = 0 THEN Film ELSE includeOf(inp, i).model

\* options.tableName || model.tableName
callTableName(inp) ==
  IF Truthy(inp.tableName) THEN inp.tableName.s ELSE Film.tableName

\* options.tableName as buildDocument receives it: the call's options.tableName at
\* the root, the parent's model.tableName in an include
optionsTableName(inp, i) ==
  IF i = 0 \/ inp.parent[i] = 0 THEN callTableName(inp)
  ELSE nodeModel(inp, inp.parent[i]).tableName

\* areNullable: undefined at the root; in an include, the nullability of the
\* parent's column named by the foreign key, true when the parent has no such column
areNullable(inp, i) ==
  IF i = 0 THEN FALSE
  ELSE LET modelDescription == nodeModel(inp, inp.parent[i]).description
           foreignKey == includeOf(inp, i).foreignKey
       IN IF ObjHas(modelDescription, foreignKey)
          THEN ObjGet(modelDescription, foreignKey).allowNull
          ELSE TRUE

\* shouldAggregate after the association type has been looked at; given is the
\* options.shouldAggregate the node was called with
aggregates_inheritedOnly(associationType, given) == given

aggregates(associationType, given) ==
  IF associationType = Str("belongsTo") THEN given
  ELSE given \/ associationType = Str("hasMany")

\* buildDocumentFromAttributes throws on a weight that is not a string (and on an
\* attribute the description does not hold)
attributesThrow(attributes, modelDescription) ==
  \E i \in 1..Len(attributes.entries) :
    \/ ~IsString(attributes.entries[i].v)
    \/ ~ObjHas(modelDescription, attributes.entries[i].k)

documentFragment(key, weight, modelDescription, tableName, options) ==
  LET attr == ObjGet(modelDescription, key)
      shouldCast == ~(attr.type = "TEXT" \/ attr.type = "CHARACTER VARYING"
                        \/ attr.type = "CHARACTER")
      column0 == col(key, Str(tableName), "")
      column1 == IF shouldCast THEN cast(column0) ELSE column0
      column2 == IF options.shouldAggregate THEN build(stringAggregate(column1))
                 ELSE column1
      column3 == IF options.areNullable \/ attr.allowNull THEN build(coalesce(column2))
                 ELSE column2
  IN build(setWeight(build(toTSVector(column3)), weight.s))

buildDocumentFromAttributes(attributes, modelDescription, tableName, options) ==
  [i \in 1..Len(attributes.entries) |->
     documentFragment(attributes.entries[i].k, attributes.entries[i].v,
                      modelDescription, tableName, options)]

\* the join of include i
includeJoin(q, inp, i) ==
  LET include == includeOf(inp, i)
      model == include.model
      belongsTo == include.associationType = Str("belongsTo")
      foreignKey == IF belongsTo
                    THEN col(include.foreignKey, Str(optionsTableName(inp, i)), "")
                    ELSE col(include.foreignKey, Str(model.tableName), "")
      targetKey == IF belongsTo
                   THEN col(include.targetKey, Str(model.tableName), "")
                   ELSE col(include.targetKey, Str(optionsTableName(inp, i)), "")
  IN QG_leftOuterJoin(q, model, Str(foreignKey), targetKey, include.as)

\* the group-by entry of include i
includeGroupBy(q, inp, i) ==
  LET include == includeOf(inp, i)
      groupByField == IF include.associationType = Str("belongsTo")
                      THEN include.targetKey
                      ELSE include.model.primaryKeyField
  IN QG_groupBy(q, groupByField,
                IF include.as # "" THEN Str(include.as) ELSE include.model)

\* the table name the columns of node i are qualified with
qualifier(inp, i) ==
  IF i > 0 /\ includeOf(inp, i).as # "" THEN includeOf(inp, i).as
  ELSE nodeModel(inp, i).tableName

nodeAttributes(inp, i) == IF i = 0 THEN inp.attributes ELSE includeOf(inp, i).attributes

\* the callback of model.describe() for node i (0: the root), called with
\* options.shouldAggregate = given, on the instance's query q and document doc:
\* the join, the group-by entry, the fragments, and the lookups it starts for the
\* includes of the node (buildDocumentFromInclude)
buildDocument(inp, i, given, q, doc) ==
  LET isInclude == i > 0
      shouldAggregate ==
        IF isInclude THEN aggregates(includeOf(inp, i).associationType, given)
        ELSE given
      q1 == IF isInclude THEN includeJoin(q, inp, i) ELSE q
      q2 == IF isInclude /\ ~shouldAggregate THEN includeGroupBy(q1, inp, i) ELSE q1
      attributes == nodeAttributes(inp, i)
      modelDescription == nodeModel(inp, i).description
      hasAttributes == ~isEmptyObject(attributes)
      threw == hasAttributes /\ attributesThrow(attributes, modelDescription)
      fragments ==
        buildDocumentFromAttributes(attributes, modelDescription, qualifier(inp, i),
          [areNullable |-> areNullable(inp, i), shouldAggregate |-> shouldAggregate])
      children == Children(inp, i)
      \* an array of includes passes no shouldAggregate on; a single include object
      \* gets the node's (the call's options.shouldAggregate, undefined, at the root)
      passed == IF i \in inp.single /\ isInclude THEN shouldAggregate ELSE FALSE
  IN [ threw |-> threw,
       query |-> q2,
       document |-> IF hasAttributes /\ ~threw THEN doc \o fragments ELSE doc,
       started |-> IF threw THEN {}
                   ELSE { [node |-> children[k], shouldAggregate |-> passed] :
                            k \in 1..Len(children) } ]

\* createMaterializedView up to its first asynchronous step: the instance's
\* document and query are replaced, and the root's description is asked for
CreateMaterializedView(c) ==
  /\ cStatus[c] = "idle"
  /\ ~IsUndefined(cInput[c])
  /\ thisDocument' = <<>>
  /\ thisQuery' =
       QG_groupBy(
         QG_from(QG_createMaterializedView(NewQueryGenerator, Str(ViewNames[c])), Film),
         Film.primaryKeyField, Film)
  /\ pending' = pending \cup {[call |-> c, node |-> 0, shouldAggregate |-> FALSE]}
  /\ cStatus' = [cStatus EXCEPT ![c] = "running"]
  /\ UNCHANGED <<cInput, sent, qgVars, sVars, pVars, pageVars>>

\* the select list of the view: the document and the primary key
viewFields(inp, doc) ==
  ObjSet(<< [k |-> "document",
             v |-> [raw |-> join(doc, " || "), as |-> "document", model |-> Undefined]] >>,
         Film.primaryKeyField,
         [raw |-> "", as |-> "",
          model |-> [type |-> "object", tableName |-> callTableName(inp)]])

\* the promise createMaterializedView chains its .then on settles with success:
\* no lookup or callback of the call has failed, and none of its lookups, at any
\* depth, is outstanding
callResolves_onFirstLookup(status, outstanding, c) == status = "running"

callResolves(status, outstanding, c) ==
  status = "running" /\ ~\E x \in outstanding : x.call = c

\* one describe() lookup completes and its callback runs; when it was the last
\* of its call and no callback of the call threw, the call's promise resolves and
\* the statement is rendered from the instance's query and sent
DescribeResolved(p) ==
  \E r \in {buildDocument(cInput[p.call], p.node, p.shouldAggregate,
                           thisQuery, thisDocument)} :
  \E pending1 \in {(pending \ {p}) \cup
                    { [call |-> p.call, node |-> s.node,
                       shouldAggregate |-> s.shouldAggregate] : s \in r.started }} :
  \E status1 \in {IF r.threw /\ cStatus[p.call] = "running" THEN "rejected"
                   ELSE cStatus[p.call]} :
  \E resolves \in {callResolves(status1, pending1, p.call)} :
  \E q3 \in {QG_select(r.query, viewFields(cInput[p.call], r.document))} :
     /\ pending' = pending1
     /\ thisDocument' = r.document
     /\ thisQuery' = IF resolves THEN q3 ELSE r.query
     /\ cStatus' = [cStatus EXCEPT ![p.call] = IF resolves THEN "sent" ELSE status1]
     /\ sent' = IF resolves
                THEN Append(sent, [call |-> p.call, sql |-> getQuery(q3),
                                   document |-> r.document, join |-> q3.join,
                                   groupBy |-> q3.groupBy])
                ELSE sent
     /\ UNCHANGED <<cInput, qgVars, sVars, pVars, pageVars>>

\* one describe() lookup fails: its callback does not run, nothing is added to the
\* instance's query or document, and the promise of the call rejects
DescribeRejected(p) ==
  /\ pending' = pending \ {p}
  /\ cStatus' = [cStatus EXCEPT ![p.call] =
                   IF cStatus[p.call] = "running" THEN "rejected" ELSE cStatus[p.call]]
  /\ UNCHANGED <<thisDocument, thisQuery, cInput, sent, qgVars, sVars, pVars, pageVars>>

ViewNext ==
  \/ \E c \in 1..2 : CreateMaterializedView(c)
  \/ \E p \in pending : DescribeResolved(p)
  \/ \E p \in pending : DescribeRejected(p)

\* one createMaterializedView call on a QueryInterface instance
Init ==
  /\ thisDocument = <<>>
  /\ thisQuery = NewQueryGenerator
  /\ \E inp \in ViewInputs(Templates, RootAttributes, MaxIncludes) :
       cInput = <<inp, NoInput>>
  /\ cStatus = [c \in 1..2 |-> "idle"]
  /\ pending = {}
  /\ sent = <<>>
  /\ qg = NewQueryGenerator
  /\ qgOutOfOrder = FALSE
  /\ sQuery = Undefined
  /\ sOptions = Undefined
  /\ sPassed = Undefined
  /\ sLog = <<>>
  /\ ParseIdle
  /\ PageIdle

Next == ViewNext

Spec == Init /\ [][Next]_vars

\* two createMaterializedView calls on one QueryInterface instance, the second of
\* which may start while the lookups of the first are outstanding
ConcInit ==
  /\ thisDocument = <<>>
  /\ thisQuery = NewQueryGenerator
  /\ \E inp1 \in ViewInputs(ValidTemplates, ValidRootAttributes, MaxConcurrentIncludes) :
     \E inp2 \in ViewInputs(ValidTemplates, ValidRootAttributes, MaxConcurrentIncludes) :
       cInput = <<inp1, inp2>>
  /\ cStatus = [c \in 1..2 |-> "idle"]
  /\ pending = {}
  /\ sent = <<>>
  /\ qg = NewQueryGenerator
  /\ qgOutOfOrder = FALSE
  /\ sQuery = Undefined
  /\ sOptions = Undefined
  /\ sPassed = Undefined
  /\ sLog = <<>>
  /\ ParseIdle
  /\ PageIdle

SpecConc == ConcInit /\ [][ViewNext]_vars

----------------------------------------------------------------------------
(* Claims about the view statement *)

\* the options.shouldAggregate that the structure of the include tree hands to
\* include i: the aggregation of its parent when the parent holds it as a single
\* include object, none otherwise
RECURSIVE givenAggregate(_, _)
givenAggregate(inp, i) ==
  IF i = 0 \/ inp.parent[i] = 0 \/ inp.parent[i] \notin inp.single THEN FALSE
  ELSE aggregates(includeOf(inp, inp.parent[i]).associationType,
                  givenAggregate(inp, inp.parent[i]))

isAggregated(inp, i) ==
  i > 0 /\ aggregates(includeOf(inp, i).associationType, givenAggregate(inp, i))

\* the fragments of node i alone
ownFragments(inp, i) ==
  IF isEmptyObject(nodeAttributes(inp, i)) THEN <<>>
  ELSE buildDocumentFromAttributes(nodeAttributes(inp, i), nodeModel(inp, i).description,
         qualifier(inp, i),
         [areNullable |-> areNullable(inp, i), shouldAggregate |-> isAggregated(inp, i)])

\* the fragments of the tree under node i in depth-first pre-order
RECURSIVE preOrder(_, _), preOrderOfAll(_, _)
preOrderOfAll(inp, nodes) ==
  IF Len(nodes) = 0 THEN <<>>
  ELSE preOrder(inp, Head(nodes)) \o preOrderOfAll(inp, Tail(nodes))

preOrder(inp, i) == ownFragments(inp, i) \o preOrderOfAll(inp, Children(inp, i))

\* C1: whatever the order in which the describe() lookups complete, the document
\* of the statement that is sent lists the fragments in depth-first pre-order: the
\* root's, then each include in array order, nested includes before the next sibling.
C1_DocumentInPreOrder ==
  \A k \in 1..Len(sent) : sent[k].document = preOrder(cInput[sent[k].call], 0)

Count(s, x) == Cardinality({ j \in 1..Len(s) : s[j] = x })

SameEntries(s, t) ==
  /\ Len(s) = Len(t)
  /\ \A j \in 1..Len(s) : Count(s, s[j]) = Count(t, s[j])

expectedJoins(inp) ==
  [i \in 1..Len(inp.parent) |-> includeJoin(NewQueryGenerator, inp, i).join[1]]

RECURSIVE expectedGroupBy(_, _)
expectedGroupBy(inp, i) ==
  IF i > Len(inp.parent) THEN <<>>
  ELSE (IF i = 0 THEN <<col(Film.primaryKeyField, Film, "")>>
        ELSE IF isAggregated(inp, i) THEN <<>>
        ELSE includeGroupBy(NewQueryGenerator, inp, i).groupBy)
         \o expectedGroupBy(inp, i + 1)

HasPrefix(text, prefix) ==
  Len(text) >= Len(prefix) /\ SubSeq(text, 1, Len(prefix)) = prefix

\* C2: of two createMaterializedView calls made on one instance before either has
\* finished, each sends the statement of its own view, made of exactly its own
\* document fragments, joins and group-by entries.
C2_CallsAreIndependent ==
  \A k \in 1..Len(sent) : \A inp \in {cInput[sent[k].call]} :
    /\ HasPrefix(sent[k].sql,
                 "CREATE MATERIALIZED VIEW " \o table(Str(ViewNames[sent[k].call])) \o " AS")
    /\ SameEntries(sent[k].document, preOrder(inp, 0))
    /\ SameEntries(sent[k].join, expectedJoins(inp))
    /\ SameEntries(sent[k].groupBy, expectedGroupBy(inp, 0))

WeightCodes == {Str("A"), Str("B"), Str("C"), Str("D")}

HasBadWeight(inp) ==
  \E i \in 0..Len(inp.parent) : \E j \in 1..Len(nodeAttributes(inp, i).entries) :
    nodeAttributes(inp, i).entries[j].v \notin WeightCodes

\* C4: a call whose attributes, at the root or in an include, hold a weight other
\* than A, B, C, D sends no statement.
C4_BadWeightNeverSent ==
  \A c \in 1..2 : (~IsUndefined(cInput[c]) /\ HasBadWeight(cInput[c])) => cStatus[c] # "sent"

AssociationTypes == {Str("belongsTo"), Str("hasOne"), Str("hasMany")}

HasBadAssociation(inp) ==
  \E i \in 1..Len(inp.parent) : includeOf(inp, i).associationType \notin AssociationTypes

\* C5: a call with an include whose associationType is missing or is not one of
\* belongsTo, hasOne, hasMany sends no statement.
C5_BadAssociationNeverSent ==
  \A c \in 1..2 :
    (~IsUndefined(cInput[c]) /\ HasBadAssociation(cInput[c])) => cStatus[c] # "sent"

\* the entries of s that name a column of include i
NamingInclude(s, inp, i) ==
  SelectSeq(s, LAMBDA f : Contains(f, table(Str(qualifier(inp, i))) \o "."))

IsRowAggregated(f) == Contains(f, "string_agg(")

\* C7: in a statement that is sent, every fragment of a hasMany include is wrapped
\* in string_agg and no GROUP BY entry names the include; a belongsTo or hasOne
\* include none of whose fragments is wrapped in string_agg has exactly one GROUP
\* BY entry.
C7_AggregateOrGroup ==
  \A k \in 1..Len(sent) : \A inp \in {cInput[sent[k].call]} :
    \A i \in 1..Len(inp.parent) :
      \A own \in {NamingInclude(sent[k].document, inp, i)} :
      \A groups \in {NamingInclude(sent[k].groupBy, inp, i)} :
        /\ includeOf(inp, i).associationType = Str("hasMany") =>
             /\ \A j \in 1..Len(own) : IsRowAggregated(own[j])
             /\ Len(groups) = 0
             /\ ~Contains(getGroupBy(sent[k]), table(Str(qualifier(inp, i))) \o ".")
        /\ ( /\ includeOf(inp, i).associationType \in {Str("belongsTo"), Str("hasOne")}
             /\ \A j \in 1..Len(own) : ~IsRowAggregated(own[j]) ) =>
             Len(groups) = 1

\* a statement is sent for a tree with a hasMany include, whose fragments are
\* there, and a belongsTo or hasOne include that is not aggregated
C7_Witness ==
  \E k \in 1..Len(sent) : \E inp \in {cInput[sent[k].call]} :
    \E i, j \in 1..Len(inp.parent) :
      /\ includeOf(inp, i).associationType = Str("hasMany")
      /\ Len(NamingInclude(sent[k].document, inp, i)) = 2
      /\ includeOf(inp, j).associationType \in {Str("belongsTo"), Str("hasOne")}
      /\ Len(NamingInclude(sent[k].document, inp, j)) = 2
      /\ \A f \in 1..2 : ~IsRowAggregated(NamingInclude(sent[k].document, inp, j)[f])

\* C27: whatever the order in which the lookups complete, the statement that is
\* sent holds exactly one LEFT OUTER JOIN per include, none for the root, and the
\* joins stand in depth-first traversal order of the include tree (each include in
\* array order, its nested includes before its next sibling).
C27_JoinsInTraversalOrder ==
  \A k \in 1..Len(sent) : sent[k].join = expectedJoins(cInput[sent[k].call])

\* the includes nested at any depth in node i
Descendants(inp, i) ==
  { j \in 1..Len(inp.parent) : j # i /\ i \in AncestorsOrSelf(inp.parent, j) }

\* C28: a statement is sent only when every node of the include tree, at every
\* depth, has added its fragments, its join and its group-by entry; a call one of
\* whose lookups failed or one of whose nodes raised an error has sent no statement
\* and is rejected.
C28_SentOnlyWhenComplete ==
  /\ \A k \in 1..Len(sent) : \A inp \in {cInput[sent[k].call]} :
       /\ SameEntries(sent[k].document, preOrder(inp, 0))
       /\ SameEntries(sent[k].join, expectedJoins(inp))
       /\ SameEntries(sent[k].groupBy, expectedGroupBy(inp, 0))
       /\ ~\E p \in pending : p.call = sent[k].call
  /\ \A c \in 1..2 :
       cStatus[c] = "rejected" => ~\E k \in 1..Len(sent) : sent[k].call = c

\* a statement is sent for a tree with an include nested in an include, all of
\* whose six fragments are in the document
C28_Witness ==
  \E k \in 1..Len(sent) : \E inp \in {cInput[sent[k].call]} :
    /\ Len(inp.parent) = 2
    /\ Descendants(inp, 1) = {2}
    /\ Len(sent[k].document) = 6

\* the place of the join of include i in the joins of a statement (0: not there)
JoinPlace(joins, inp, i) ==
  LET at == { j \in 1..Len(joins) : joins[j] = expectedJoins(inp)[i] }
  IN IF at = {} THEN 0 ELSE CHOOSE j \in at : \A x \in at : j <= x

C30_SingleIncludeIsArrayOfOne ==
  \A k \in 1..Len(sent) : \A inp \in {cInput[sent[k].call]} :
    \A asArrays \in {[inp EXCEPT !.single = {}]} :
      /\ SameEntries(sent[k].document, preOrder(asArrays, 0))
      /\ SameEntries(sent[k].join, expectedJoins(asArrays))
      /\ SameEntries(sent[k].groupBy, expectedGroupBy(asArrays, 0))
      /\ \A i \in 1..Len(inp.parent) :
           ( /\ inp.parent[i] > 0
             /\ includeOf(inp, inp.parent[i]).associationType = Str("hasMany") ) =>
             /\ \A f \in 1..Len(NamingInclude(sent[k].document, inp, i)) :
                  IsRowAggregated(NamingInclude(sent[k].document, inp, i)[f])
             /\ Len(NamingInclude(sent[k].groupBy, inp, i)) = 0

----------------------------------------------------------------------------
(* JavaScript string functions used by parseQuery *)

Clamp(i, n) == IF i < 0 THEN 0 ELSE IF i > n THEN n ELSE i

\* String.prototype.substring(start, end): both ends clamped to 0..length and
\* swapped when start > end
substring(s, start, end) ==
  LET a == Clamp(start, Len(s))
      b == Clamp(end, Len(s))
  IN IF a <= b THEN SubSeq(s, a + 1, b) ELSE SubSeq(s, b + 1, a)

\* String.prototype.charAt: the empty string outside the string
charAt(s, i) == IF i >= 0 /\ i < Len(s) THEN SubSeq(s, i + 1, i + 1) ELSE ""

\* String.prototype.lastIndexOf(sub, fromIndex): the last match that starts at or
\* before fromIndex, fromIndex clamped to 0..length - sub.length
lastIndexOf(s, sub, fromIndex) ==
  LET m == Len(sub)
      top == IF fromIndex < 0 THEN 0 ELSE fromIndex
      start == IF top > Len(s) - m THEN Len(s) - m ELSE top
      hits == {i \in 0..start : SubSeq(s, i + 1, i + m) = sub}
  IN IF hits = {} THEN -1 ELSE CHOOSE i \in hits : \A j \in hits : i >= j

\* String.prototype.trim
RECURSIVE trimStart(_)
trimStart(s) ==
  IF Len(s) > 0 /\ SubSeq(s, 1, 1) = " " THEN trimStart(SubSeq(s, 2, Len(s))) ELSE s

RECURSIVE trimEnd(_)
trimEnd(s) ==
  IF Len(s) > 0 /\ SubSeq(s, Len(s), Len(s)) = " "
  THEN trimEnd(SubSeq(s, 1, Len(s) - 1)) ELSE s

trim(s) == trimEnd(trimStart(s))

\* String.prototype.replace(pattern, '') with a string pattern: the first
\* occurrence is removed
replace(s, pattern) ==
  LET at == indexOf(s, pattern)
  IN IF at < 0 THEN s
     ELSE SubSeq(s, 1, at) \o SubSeq(s, at + Len(pattern) + 1, Len(s))

NaN == [type |-> "NaN"]

\* parseInt(s): optional sign, then the leading decimal digits; NaN without a digit
RECURSIVE leadingDigits(_, _)
leadingDigits(s, acc) ==
  IF Len(s) > 0 /\ indexOf("0123456789", SubSeq(s, 1, 1)) >= 0
  THEN leadingDigits(SubSeq(s, 2, Len(s)),
                     [n |-> acc.n * 10 + indexOf("0123456789", SubSeq(s, 1, 1)), any |-> TRUE])
  ELSE acc

parseInt(s) ==
  LET t == trimStart(s)
      negative == charAt(t, 0) = "-"
      signed == negative \/ charAt(t, 0) = "+"
      d == leadingDigits(IF signed THEN SubSeq(t, 2, Len(t)) ELSE t, [n |-> 0, any |-> FALSE])
  IN IF ~d.any THEN NaN ELSE Num(IF negative THEN 0 - d.n ELSE d.n)

\* String.prototype.allIndicesOf (Util.polyfillAllIndicesOf)
RECURSIVE allIndicesFrom(_, _, _)
allIndicesFrom(s, sub, indices) ==
  LET prevIndex == indices[Len(indices)] + 1
      index == indexOf(substring(s, prevIndex, Len(s)), sub)
  IN IF index > -1 THEN allIndicesFrom(s, sub, Append(indices, index + prevIndex))
     ELSE indices

allIndicesOf(s, sub) == allIndicesFrom(s, sub, <<indexOf(s, sub)>>)

----------------------------------------------------------------------------
(* SearchModel.parseQuery *)

\* the options parseQuery starts from
parseOptions ==
  [where |-> Obj(<<>>), order |-> Arr(<<>>), attributes |-> Undefined,
   limit |-> Num(-1), offset |-> Num(0)]

\* the keys: for every colon, the text between the last space before it and it
parseKeys(query) ==
  LET indices == allIndicesOf(query, ":")
  IN [i \in 1..Len(indices) |->
        substring(query, lastIndexOf(query, " ", indices[i]) + 1, indices[i])]

\* the callback of keys.forEach for the i-th key (1-based), on the query string
\* and the options as the earlier keys left them
parseKey(keys, i, query, options) ==
  LET key == keys[i]
      bound == substring(query, indexOf(query, key) + Len(key) + 1,
                         IF i < Len(keys) THEN indexOf(query, keys[i + 1]) ELSE Len(query))
      trimmed == trim(bound)
      isOrder == key = "order"
      isComparison == ~isOrder /\ charAt(trimmed, 0) \in {"=", ">", "<"}
      operator == IF ~isComparison THEN ""
                  ELSE IF charAt(trimmed, 1) = "=" THEN substring(trimmed, 0, 2)
                  ELSE charAt(trimmed, 0)
      originalValue == IF isComparison THEN substring(trimmed, Len(operator), Len(trimmed))
                       ELSE bound
      value == IF isComparison THEN trim(originalValue) ELSE trimmed
      options1 ==
        IF isOrder
        THEN [options EXCEPT !.order =
                Arr(Append(options.order.items,
                           IF charAt(value, 0) = "!"
                           THEN <<Str(substring(value, 1, Len(value))), "DESC">>
                           ELSE <<Str(value), "ASC">>))]
        ELSE IF isComparison
        THEN [options EXCEPT !.where =
                Obj(ObjSet(options.where.entries, key, Filter(operator, value)))]
        ELSE IF key = "limit" THEN [options EXCEPT !.limit = parseInt(value)]
        ELSE IF key = "offset" THEN [options EXCEPT !.offset = parseInt(value)]
        ELSE [options EXCEPT !.where =
                Obj(ObjSet(options.where.entries, key, Filter("ilike", value)))]
  IN [query |-> replace(query, key \o ":" \o operator \o originalValue),
      options |-> options1]

RECURSIVE parseEach(_, _, _, _)
parseEach(keys, i, query, options) ==
  IF i > Len(keys) THEN [query |-> query, options |-> options]
  ELSE IF keys[i] = "" THEN parseEach(keys, i + 1, query, options)
  ELSE parseEach(keys, i + 1, parseKey(keys, i, query, options).query,
                 parseKey(keys, i, query, options).options)

\* parseQuery(query): [query.trim(), options]; query a string value or undefined
parseQuery(query) ==
  LET text == IF Truthy(query) THEN query.s ELSE ""
      parsed == parseEach(parseKeys(text), 1, text, parseOptions)
  IN [query |-> Str(trim(parsed.query)), options |-> parsed.options]

----------------------------------------------------------------------------
(* A caller of the static SearchModel.parseQuery and of model.searchByText *)

\* the raw query strings: free words and key:value tokens separated by single
\* spaces, with or without a leading or a trailing space
QueryWords == {"Beautiful", "rating"}

QueryKeys == {"title", "rating", "order", "limit", "offset"}

QueryValues ==
  {"the hangover", "rating", "!rating", ">=7", "==7", " >7", "2", "-5", "", "7 "}

QueryItems == QueryWords \cup {k \o ":" \o v : k \in QueryKeys, v \in QueryValues}

RECURSIVE QueryTexts(_)
QueryTexts(n) ==
  IF n = 0 THEN {""}
  ELSE QueryTexts(n - 1) \cup
       {t \o (IF t = "" THEN "" ELSE " ") \o item :
          t \in QueryTexts(n - 1), item \in QueryItems}

RawQueries ==
  {Undefined} \cup
  {Str(before \o t \o after) :
     t \in QueryTexts(MaxItems), before \in {"", " "}, after \in {"", " "}}

ParseInit ==
  /\ polyfilled = FALSE
  /\ pRaw \in RawQueries
  /\ pResult = Undefined
  /\ pSql = Undefined
  /\ qg = NewQueryGenerator
  /\ qgOutOfOrder = FALSE
  /\ sQuery = Undefined
  /\ sOptions = Undefined
  /\ sPassed = Undefined
  /\ sLog = <<>>
  /\ ViewIdle
  /\ PageIdle

\* new SearchModel(model): installs allIndicesOf and model.searchByText
Construct ==
  /\ ~polyfilled
  /\ polyfilled' = TRUE
  /\ UNCHANGED <<pRaw, pResult, pSql, qgVars, sVars, viewVars, pageVars>>

\* SearchModel.parseQuery(pRaw): query.allIndicesOf is not a function, a
\* TypeError, until the polyfill is installed
ParseQuery ==
  /\ IsUndefined(pResult)
  /\ pResult' =
       IF polyfilled
       THEN [type |-> "result", threw |-> FALSE, query |-> parseQuery(pRaw).query,
             options |-> parseQuery(pRaw).options]
       ELSE [type |-> "result", threw |-> TRUE, query |-> Undefined,
             options |-> Undefined]
  /\ UNCHANGED <<polyfilled, pRaw, pSql, qgVars, sVars, viewVars, pageVars>>

\* model.searchByText(pRaw): SearchModel.search(model, ...parseQuery(pRaw))
SearchByText ==
  /\ polyfilled
  /\ IsUndefined(pSql)
  /\ \E parsed \in {parseQuery(pRaw)} :
     \E r \in {search(FilmMaterializedView, parsed.query, parsed.options)} :
       pSql' = [type |-> "result", threw |-> r.threw, sql |-> r.sql]
  /\ UNCHANGED <<polyfilled, pRaw, pResult, qgVars, sVars, viewVars, pageVars>>

ParseNext ==
  \/ Construct
  \/ ParseQuery
  \/ SearchByText

SpecParse == ParseInit /\ [][ParseNext]_vars

----------------------------------------------------------------------------
(* Claims about parseQuery and searchByText *)

Parsed == ~IsUndefined(pResult) /\ ~pResult.threw

RawText == IF Truthy(pRaw) THEN pRaw.s ELSE ""

\* the key tokens of a raw query, read by position: one per colon that has a
\* run of non-space characters before it; from is where the key starts, colon
\* where its colon is
KeyTokens(q) ==
  LET colons == {i \in 0..(Len(q) - 1) : charAt(q, i) = ":"}
      keyed == {c \in colons : lastIndexOf(q, " ", c) + 1 < c}
      nth[k \in 1..Cardinality(keyed)] ==
        CHOOSE c \in keyed : Cardinality({d \in keyed : d < c}) = k - 1
  IN [k \in 1..Cardinality(keyed) |->
        [from |-> lastIndexOf(q, " ", nth[k]) + 1, colon |-> nth[k]]]

\* the key and the value text of the k-th token: the value runs from the token's
\* own colon to the start of the next token or the end of the string, trimmed
TokenKey(q, k) == SubSeq(q, KeyTokens(q)[k].from + 1, KeyTokens(q)[k].colon)

TokenValue(q, k) ==
  trim(SubSeq(q, KeyTokens(q)[k].colon + 2,
              IF k < Len(KeyTokens(q)) THEN KeyTokens(q)[k + 1].from ELSE Len(q)))

OrderTokens(q) ==
  SelectSeq([k \in 1..Len(KeyTokens(q)) |-> k], LAMBDA k : TokenKey(q, k) = "order")

OrderEntry(value) ==
  IF Len(value) > 0 /\ SubSeq(value, 1, 1) = "!"
  THEN <<Str(SubSeq(value, 2, Len(value))), "DESC">>
  ELSE <<Str(value), "ASC">>

RankText(term) ==
  "ts_rank(\"film_materialized_view\".\"document\", " \o build(toTSQuery(term)) \o ")"

\* C11: for a query made of a free-text term and one order token naming an
\* attribute of the model, the statement searchByText sends orders by the rank of
\* the term first and then by the named field in the requested direction.
C11_RankThenNamedField ==
  \A q \in {RawText} :
    ( /\ ~IsUndefined(pSql)
      /\ Len(KeyTokens(q)) = 1
      /\ TokenKey(q, 1) = "order"
      /\ trim(SubSeq(q, 1, KeyTokens(q)[1].from)) # ""
      /\ ObjHas(Film.attributes, OrderEntry(TokenValue(q, 1))[1].s) ) =>
    \A term \in {trim(SubSeq(q, 1, KeyTokens(q)[1].from))} :
    \A named \in {col(ObjGet(Film.attributes, OrderEntry(TokenValue(q, 1))[1].s).field,
                      Film, "") \o " " \o OrderEntry(TokenValue(q, 1))[2]} :
      /\ ~pSql.threw
      /\ \/ Contains(pSql.sql, " ORDER BY " \o RankText(term) \o " DESC, " \o named)
         \/ Contains(pSql.sql, " ORDER BY " \o RankText(term) \o ", " \o named)

\* C12: the order list parseQuery returns is the sequence of the query's order
\* tokens from left to right, each (attribute, DESC) when its value starts with
\* '!' and (attribute, ASC) otherwise: n order tokens give exactly n entries.
C12_OrderTokensInTextOrder ==
  Parsed =>
    \A q \in {RawText} :
      pResult.options.order.items =
        [j \in 1..Len(OrderTokens(q)) |-> OrderEntry(TokenValue(q, OrderTokens(q)[j]))]

FilterKeys(q) ==
  {TokenKey(q, k) : k \in 1..Len(KeyTokens(q))} \ {"order", "limit", "offset"}

Occurrences(q, key) == {k \in 1..Len(KeyTokens(q)) : TokenKey(q, k) = key}

LastOccurrence(q, key) ==
  CHOOSE k \in Occurrences(q, key) : \A j \in Occurrences(q, key) : j <= k

\* the filter a value text stands for: a leading =, >, <, >= or <= is the
\* operator and the rest, trimmed, the value; any other text is a fuzzy match
FilterOf(value) ==
  LET first == IF Len(value) > 0 THEN SubSeq(value, 1, 1) ELSE ""
      two == IF Len(value) > 1 THEN SubSeq(value, 1, 2) ELSE ""
  IN IF two \in {">=", "<="} THEN Filter(two, trim(SubSeq(value, 3, Len(value))))
     ELSE IF first \in {"=", ">", "<"}
     THEN Filter(first, trim(SubSeq(value, 2, Len(value))))
     ELSE Filter("ilike", value)

\* C13: when a filter key appears more than once in the query, the filter
\* recorded for it has the operator and value of its right-most occurrence.
C13_LastOccurrenceWins ==
  Parsed =>
    \A q \in {RawText} : \A key \in FilterKeys(q) :
      Cardinality(Occurrences(q, key)) > 1 =>
        /\ ObjHas(pResult.options.where.entries, key)
        /\ ObjGet(pResult.options.where.entries, key) =
             FilterOf(TokenValue(q, LastOccurrence(q, key)))

\* C14: the value recorded for a key token is the text from just after the
\* token's own colon up to the start of the next key token or the end of the
\* string, trimmed, wherever else the characters of the key occur.  Stated for
\* the filter keys that occur in one token only and have no comparison operator.
C14_ValueRunsToNextKey ==
  Parsed =>
    \A q \in {RawText} : \A key \in FilterKeys(q) :
      \A k \in Occurrences(q, key) :
        ( /\ Cardinality(Occurrences(q, key)) = 1
          /\ FilterOf(TokenValue(q, k)).operator = "ilike" ) =>
          /\ ObjHas(pResult.options.where.entries, key)
          /\ ObjGet(pResult.options.where.entries, key).value = Str(TokenValue(q, k))

\* the original string without its key:value tokens: the tokens run from the
\* first key to the end of the string
FreeText(q) ==
  trim(IF Len(KeyTokens(q)) = 0 THEN q ELSE SubSeq(q, 1, KeyTokens(q)[1].from))

\* C15: the free-text term parseQuery returns is the original string with every
\* key:value token deleted and the rest trimmed.
C15_FreeTextIsTheRest ==
  Parsed => pResult.query = Str(FreeText(RawText))

\* C16: the limit parseQuery returns is an integer >= -1 and the offset an
\* integer >= 0.
C16_LimitAndOffsetInRange ==
  Parsed =>
    /\ pResult.options.limit.type = "number" /\ pResult.options.limit.n >= -1
    /\ pResult.options.offset.type = "number" /\ pResult.options.offset.n >= 0

\* C17: the operator of every filter parseQuery records is one of =, >, <, >=, <=
\* or the fuzzy operator.
C17_OperatorIsKnown ==
  Parsed =>
    \A i \in 1..Len(pResult.options.where.entries) :
      pResult.options.where.entries[i].v.operator \in {"=", ">", "<", ">=", "<=", "ilike"}

\* C18: parseQuery returns without throwing, for every input, also before any
\* SearchModel has been constructed.
C18_ParseNeverThrows ==
  ~IsUndefined(pResult) => ~pResult.threw

\* C19: for a query without any colon, parseQuery returns the input trimmed as
\* the free-text term, no filters, an empty order list, limit -1 and offset 0.
C19_NoColonIsFreeText ==
  (Parsed /\ ~Contains(RawText, ":")) =>
    /\ pResult.query = Str(trim(RawText))
    /\ pResult.options = parseOptions

\* the options as key:value tokens: the filters, the order entries, then the limit
\* and the offset when they are not the defaults
SerializeFilter(e) ==
  e.k \o ":" \o (IF e.v.operator = "ilike" THEN "" ELSE e.v.operator) \o e.v.value.s

SerializeOrder(o) == "order:" \o (IF o[2] = "DESC" THEN "!" ELSE "") \o o[1].s

Serialize(options) ==
  join([i \in 1..Len(options.where.entries) |-> SerializeFilter(options.where.entries[i])]
         \o [i \in 1..Len(options.order.items) |-> SerializeOrder(options.order.items[i])]
         \o (IF options.limit = Num(-1) THEN <<>>
             ELSE <<"limit:" \o JsToString(options.limit)>>)
         \o (IF options.offset = Num(0) THEN <<>>
             ELSE <<"offset:" \o JsToString(options.offset)>>),
       " ")

\* C20: writing the filters, order, limit and offset of parseQuery(q) back as
\* key:value tokens and parsing that string gives the same filters, order, limit
\* and offset.
C20_ReparseIsStable ==
  Parsed => parseQuery(Str(Serialize(pResult.options))).options = pResult.options

----------------------------------------------------------------------------
(* Claims about the statement search sends *)

\* the words of a text: the runs of characters between runs of spaces
RECURSIVE WordsOf(_, _, _)
WordsOf(s, word, acc) ==
  IF Len(s) = 0 THEN (IF word = "" THEN acc ELSE Append(acc, word))
  ELSE IF SubSeq(s, 1, 1) = " "
  THEN WordsOf(SubSeq(s, 2, Len(s)), "", IF word = "" THEN acc ELSE Append(acc, word))
  ELSE WordsOf(SubSeq(s, 2, Len(s)), word \o SubSeq(s, 1, 1), acc)

\* C21: for a non-empty free-text term, the statement holds the predicate
\* document @@ to_tsquery('w1 & ... & wn:*'), w1..wn the words of the term split
\* on runs of whitespace, only the last one marked as a prefix match.
C21_WordsJoinedByAnd ==
  \A i \in 1..Len(sLog) :
    (~sLog[i].threw /\ Truthy(sQuery)) =>
      Contains(sLog[i].sql,
               "\"film_materialized_view\".\"document\" @@ to_tsquery('"
                 \o join(WordsOf(sQuery.s, "", <<>>), " & ") \o ":*')")

----------------------------------------------------------------------------
(* A caller that pages through the results of one search, and the server that
   executes the statements sequelize.query is given *)

\* the number at the head of a text; none when the text starts with no digit
NumberAt(text) == leadingDigits(text, [n |-> 0, any |-> FALSE])

RECURSIVE SkipDigits(_)
SkipDigits(text) ==
  IF Len(text) > 0 /\ indexOf("0123456789", SubSeq(text, 1, 1)) >= 0
  THEN SkipDigits(SubSeq(text, 2, Len(text))) ELSE text

StartsWith(text, prefix) ==
  Len(text) >= Len(prefix) /\ SubSeq(text, 1, Len(prefix)) = prefix

\* the rows the server returns for a statement whose search matches rows 1..n in
\* a stable order: the LIMIT and OFFSET clauses are read from the statement text.
\* A number with a keyword glued to it (LIMIT 2OFFSET 1) is two tokens for a
\* lenient server and a syntax error for a strict one.
Execute(sql, n, lenient) ==
  LET at == indexOf(sql, " LIMIT ")
      afterLimit == IF at < 0 THEN "" ELSE SubSeq(sql, at + 8, Len(sql))
      limit == IF at < 0 THEN n ELSE NumberAt(afterLimit).n
      rest == IF at < 0 THEN SubSeq(sql, Len(sql), Len(sql)) ELSE SkipDigits(afterLimit)
      glued == StartsWith(rest, "OFFSET ")
      offsetText == IF glued THEN SubSeq(rest, 8, Len(rest))
                    ELSE IF StartsWith(rest, " OFFSET ") THEN SubSeq(rest, 9, Len(rest))
                    ELSE IF at < 0 /\ indexOf(sql, " OFFSET ") >= 0
                    THEN SubSeq(sql, indexOf(sql, " OFFSET ") + 9, Len(sql))
                    ELSE "0"
      offset == NumberAt(offsetText).n
      last == IF offset + limit < n THEN offset + limit ELSE n
  IN IF glued /\ ~lenient THEN [type |-> "error", rows |-> <<>>]
     ELSE [type |-> "rows", rows |-> [i \in 1..(IF last > offset THEN last - offset ELSE 0)
                                        |-> offset + i]]

\* the limit and offset of each page of a caller with page size L
PageLimit(page, L) == IF page = "double" THEN 2 * L ELSE L

PageOffset(page, L) ==
  CASE page = "second" -> L
    [] page = "shifted" -> 1
    [] OTHER -> 0

PageInit ==
  /\ pgRows \in 0..MaxRows
  /\ pgLimit \in 1..MaxLimit
  /\ pgLenient \in BOOLEAN
  /\ pgResult = [page \in Pages |-> Undefined]
  /\ qg = NewQueryGenerator
  /\ qgOutOfOrder = FALSE
  /\ sQuery = Undefined
  /\ sOptions = Undefined
  /\ sPassed = Undefined
  /\ sLog = <<>>
  /\ ViewIdle
  /\ ParseIdle

\* model.search('mind', {limit, offset}) for one page: search returns what
\* sequelize.query returns for the statement
PageSearch(page) ==
  /\ IsUndefined(pgResult[page])
  /\ \E r \in {search(FilmMaterializedView, Str("mind"),
                      [where |-> Undefined, order |-> Undefined, attributes |-> Undefined,
                       limit |-> Num(PageLimit(page, pgLimit)),
                       offset |-> Num(PageOffset(page, pgLimit))])} :
       pgResult' = [pgResult EXCEPT ![page] =
                      IF r.threw THEN [type |-> "threw", rows |-> <<>>]
                      ELSE Execute(r.sql, pgRows, pgLenient)]
  /\ UNCHANGED <<pgRows, pgLimit, pgLenient, qgVars, sVars, viewVars, pVars>>

PageNext == \E page \in Pages : PageSearch(page)

SpecPage == PageInit /\ [][PageNext]_vars

\* C22: against a fixed result set in a stable order, the page with limit L and
\* offset 0 and the page with limit L and offset L are disjoint and together are
\* the page with limit 2L and offset 0; a page has at most L rows, and for L >= 2
\* the first row of limit L offset 1 is the second row of limit L offset 0.
C22_PagesTile ==
  (\A page \in Pages : ~IsUndefined(pgResult[page])) =>
    /\ \A page \in Pages : pgResult[page].type = "rows"
    /\ pgResult["first"].rows \o pgResult["second"].rows = pgResult["double"].rows
    /\ \A i \in 1..Len(pgResult["first"].rows), j \in 1..Len(pgResult["second"].rows) :
         pgResult["first"].rows[i] # pgResult["second"].rows[j]
    /\ Len(pgResult["first"].rows) <= pgLimit
    /\ (pgLimit >= 2 /\ Len(pgResult["shifted"].rows) >= 1) =>
         /\ Len(pgResult["first"].rows) >= 2
         /\ pgResult["shifted"].rows[1] = pgResult["first"].rows[2]

----------------------------------------------------------------------------
(* One createMaterializedView call that overrides the table name *)

OverrideName == "movie"

OverrideInit ==
  /\ thisDocument = <<>>
  /\ thisQuery = NewQueryGenerator
  /\ \E inp \in ViewInputs(ValidTemplates, ValidRootAttributes, MaxIncludes) :
       cInput = <<[inp EXCEPT !.tableName = Str(OverrideName)], NoInput>>
  /\ cStatus = [c \in 1..2 |-> "idle"]
  /\ pending = {}
  /\ sent = <<>>
  /\ qg = NewQueryGenerator
  /\ qgOutOfOrder = FALSE
  /\ sQuery = Undefined
  /\ sOptions = Undefined
  /\ sPassed = Undefined
  /\ sLog = <<>>
  /\ ParseIdle
  /\ PageIdle

SpecOverride == OverrideInit /\ [][ViewNext]_vars

\* C23: when options.tableName is given, the statement names the root table by
\* it everywhere (FROM, the root's columns, the root GROUP BY key, the selected
\* primary key, the join keys of the first-level includes) and never by
\* model.tableName.
C23_TableNameOverrides ==
  \A k \in 1..Len(sent) :
    Truthy(cInput[sent[k].call].tableName) =>
      /\ Contains(sent[k].sql, " FROM " \o table(cInput[sent[k].call].tableName) \o " ")
      /\ ~Contains(sent[k].sql, table(Film) \o ".")
      /\ ~Contains(sent[k].sql, " FROM " \o table(Film) \o " ")

----------------------------------------------------------------------------
(* searchByText against search *)

IsComparisonText(value) == Len(value) > 0 /\ SubSeq(value, 1, 1) \in {"=", ">", "<"}

\* the options a raw query denotes, token by token from the left: order tokens
\* accumulate, a later filter, limit or offset replaces an earlier one
RECURSIVE DenotedFrom(_, _, _)
DenotedFrom(q, k, options) ==
  IF k > Len(KeyTokens(q)) THEN options
  ELSE DenotedFrom(q, k + 1,
         IF TokenKey(q, k) = "order"
         THEN [options EXCEPT !.order =
                 Arr(Append(options.order.items, OrderEntry(TokenValue(q, k))))]
         ELSE IF TokenKey(q, k) = "limit" /\ ~IsComparisonText(TokenValue(q, k))
         THEN [options EXCEPT !.limit = parseInt(TokenValue(q, k))]
         ELSE IF TokenKey(q, k) = "offset" /\ ~IsComparisonText(TokenValue(q, k))
         THEN [options EXCEPT !.offset = parseInt(TokenValue(q, k))]
         ELSE [options EXCEPT !.where =
                 Obj(ObjSet(options.where.entries, TokenKey(q, k),
                            FilterOf(TokenValue(q, k))))])

Denoted(q) == DenotedFrom(q, 1, parseOptions)

\* C24: searchByText(q) sends the statement that search sends when it is called
\* with the free-text term and the where, order, limit and offset that q denotes.
C24_SearchByTextIsSearch ==
  ~IsUndefined(pSql) =>
    \A r \in {search(FilmMaterializedView, Str(FreeText(RawText)), Denoted(RawText))} :
      pSql.threw = r.threw /\ pSql.sql = r.sql

====
